---- MODULE Spec2Model ----
(***************************************************************************)
(* Time Room: the room registry, membership, shared timer and SSE          *)
(* broadcast engine of the Express server (src/script.js, lines 303-518).  *)
(* Every request handler of that server runs to completion on the Node     *)
(* event loop, so each handler is one action. The older plain-http server  *)
(* (src/backend/server.js) handles the body of a POST in a later callback; *)
(* its listeners and callbacks are the actions of SpecHttp.                *)
(***************************************************************************)
EXTENDS Integers, Sequences, FiniteSets, TLC

(* ------------------------------ bounds --------------------------------- *)

\* Date.now() ranges over 1..MaxTime.
MaxTime == 2
\* Room objects ever created.
MaxRooms == 2
\* Member ids ever minted by crypto.randomUUID().
MaxMembers == 2
\* SSE streams ever opened.
MaxStreams == 2
\* Requests of the plain-http server whose body has not ended.
MaxPending == 2
\* Requests are served and transports fail while fewer than MaxOps handler
\* runs and transport failures have changed the server's state.
MaxOps == 5

(* --------------------------- values of the model ----------------------- *)

\* A destructured field that the request did not carry (JavaScript undefined).
Undefined == "undefined"

Range(f) == {f[i] : i \in DOMAIN f}

\* Strings are sequences of one-character strings.
LowerLetters == <<"a", "b", "c", "d", "e", "f">>

UpperLetters == <<"A", "B", "C", "D", "E", "F">>

Digits == <<"0", "1", "2", "3", "4", "5", "6", "7", "8", "9">>

\* String.prototype.toUpperCase, one character.
ToUpperChar(c) == IF \E i \in DOMAIN LowerLetters : LowerLetters[i] = c THEN UpperLetters[CHOOSE i \in DOMAIN LowerLetters : LowerLetters[i] = c] ELSE c

\* String.prototype.toUpperCase.
ToUpperCase(s) == [i \in 1..Len(s) |-> ToUpperChar(s[i])]

\* A character the class [A-Z0-9] matches.
IsAZ09(c) == c \in (Range(UpperLetters) \cup Range(Digits))

\* s.replace(/[^A-Z0-9]/g, ""): every character outside A-Z0-9 is dropped.
StripNonAlnum(s) == SelectSeq(s, IsAZ09)

\* A normalization that upper-cases and strips nothing.
Normalize_UpperOnly(s) == ToUpperCase(s)

\* roomCode.toUpperCase().replace(/[^A-Z0-9]/g, "")
Normalize(s) == StripNonAlnum(ToUpperCase(s))

\* Buffer.toString("hex"): two lowercase hex digits per byte.
HexDigits == Digits \o LowerLetters

HexOfByte(b) == <<HexDigits[(b \div 16) + 1], HexDigits[(b % 16) + 1]>>

ToHex(bytes) == IF bytes = <<>> THEN <<>> ELSE HexOfByte(bytes[1]) \o HexOfByte(bytes[2]) \o HexOfByte(bytes[3])

\* The values crypto.randomBytes(3) may return in this model.
RandomBytes == {<<0, 10, 255>>}

\* generateRoomCode, given the random bytes drawn.
generateRoomCode(bytes) == ToUpperCase(ToHex(bytes))

\* The bodies of POST /rooms: no roomCode, an empty one, one that normalizes
\* to nothing, one that normalizes to "AB", and "AB" itself.
CreateBodies == {<<>>, [roomCode |-> <<>>], [roomCode |-> <<"!">>], [roomCode |-> <<"a", "-", "b">>], [roomCode |-> <<"A", "B">>]}

\* Every code a room can be registered under.
RoomCodes == ({generateRoomCode(b) : b \in RandomBytes} \cup {Normalize(b.roomCode) : b \in {x \in CreateBodies : DOMAIN x # {}}}) \ {<<>>}

\* The codes requests address: the registrable ones and one that never is.
LookupCodes == RoomCodes \cup {<<"a", "-", "b">>}

\* The ids crypto.randomUUID() returns, in the order it returns them.
UUIDs == <<"u1", "u2", "u3", "u4", "u5", "u6">>

\* What a client declares about itself on join.
Profiles == {[name |-> "Alice", timezone |-> "UTC", locale |-> "en-GB"], [name |-> "Bob", timezone |-> "Asia/Tokyo", locale |-> "ja-JP"]}

(* ------------------------------- state --------------------------------- *)

VARIABLES
  now,      \* the value Date.now() returned last; the clock never goes back
  rooms,    \* the registry: room code -> the room object registered under it
  heap,     \* the room objects still referenced, by identity
  conns,    \* per stream ever opened: what its close handler captured
  sent,     \* per stream: the sendSSE calls made on it since it was opened, in
            \* order; once its close handler ran, the calls made on it since then
  broken,   \* the attached streams whose res.write throws
  created,  \* room objects created so far
  minted,   \* ids crypto.randomUUID() has returned so far
  assigned, \* per id returned so far: the room object it was set into
  casts,    \* per member id: the member-joined and member-left broadcasts made
            \* for it so far, in order
  pending,  \* plain-http server: the join and leave requests that have arrived
            \* and whose body has not ended, each with the room it looked up
  ops,      \* state-changing handler runs and transport failures so far
  last      \* the handler that ran last: its request and its response

vars == <<now, rooms, heap, conns, sent, broken, created, minted, assigned, casts, pending, ops, last>>

\* The ids minted so far.
Minted == {UUIDs[i] : i \in 1..minted}

\* The member ids a request may carry: none, or one the server once handed out.
MemberIdInputs == {Undefined} \cup Minted

Streams == DOMAIN conns

(* --------------------------- Map and JSON helpers ---------------------- *)

\* room.members.has(memberId)
HasMember(room, memberId) == \E i \in 1..Len(room.members) : room.members[i].id = memberId

\* room.members.get(memberId)
GetMember(room, memberId) == room.members[CHOOSE i \in 1..Len(room.members) : room.members[i].id = memberId]

KeepOthers(members, memberId) == SelectSeq(members, LAMBDA m : m.id # memberId)

\* room.members.delete(memberId)
DeleteMember(room, memberId) == [room EXCEPT !.members = KeepOthers(@, memberId)]

\* room.members.set(member.id, member) for an id that is not a key yet
SetMember(room, member) == [room EXCEPT !.members = Append(@, member)]

\* JSON.stringify of an object: its keys and values in the order written.
MemberJson(m) == <<<<"id", m.id>>, <<"name", m.name>>, <<"timezone", m.timezone>>, <<"locale", m.locale>>, <<"joinedAt", m.joinedAt>>>>

MembersJson(members) == [i \in 1..Len(members) |-> MemberJson(members[i])]

\* The value JSON.parse gives back for key k of a stringified object.
JsonGet(json, k) == json[CHOOSE i \in 1..Len(json) : json[i][1] = k][2]

\* Whether the stringified object has key k.
JsonHas(json, k) == \E i \in 1..Len(json) : json[i][1] = k

(* ------------------------------ sendSSE -------------------------------- *)

\* sendSSE(res, event, data): the two res.write calls; when they throw the
\* error is caught and logged, and the event does not reach the client.
SendSSE(log, s, event, data) == Append(log, [event |-> event, data |-> data, ok |-> s \notin broken])

\* A broadcast whose sendSSE lets the error of res.write through: the loop
\* over room.streams, which runs in the order the streams were added, ends
\* at the first stream whose write throws.
Broadcast_Throws(logs, room, event, data) == [s \in DOMAIN logs |-> IF s \in room.streams /\ (\A b \in (room.streams \cap broken) : b >= s) THEN SendSSE(logs[s], s, event, data) ELSE logs[s]]

\* broadcast(room, event, data): sendSSE on every stream of room.streams.
Broadcast(logs, room, event, data) == [s \in DOMAIN logs |-> IF s \in room.streams THEN SendSSE(logs[s], s, event, data) ELSE logs[s]]

\* What a handler records of the server before it runs.
Before == [rooms |-> rooms, heap |-> heap, sent |-> sent]

(* ------------------------------- Init ---------------------------------- *)

Init ==
  /\ now = 1
  /\ rooms = <<>>
  /\ heap = <<>>
  /\ conns = <<>>
  /\ sent = <<>>
  /\ broken = {}
  /\ created = 0
  /\ minted = 0
  /\ assigned = <<>>
  /\ casts = <<>>
  /\ pending = {}
  /\ ops = 0
  /\ last = [op |-> "listen"]

(* --------------------------- POST /rooms ------------------------------- *)

\* What the next n Date.now() calls may return: the clock may have advanced
\* since the last call, and may advance between two calls of one handler.
ClockReads(n) == {t \in [1..n -> now..MaxTime] : \A i \in 1..(n - 1) : t[i] <= t[i + 1]}

\* A handler that generates a code only when the request names none, and
\* keeps whatever the normalization leaves of a named one.
Generates_OnlyWhenAbsent(body) == "roomCode" \notin DOMAIN body \/ body.roomCode = <<>>

\* Whether the handler calls generateRoomCode for this body.
Generates(body) == IF "roomCode" \notin DOMAIN body \/ body.roomCode = <<>> THEN TRUE ELSE Normalize(body.roomCode) = <<>>

\* The code the room is to be stored under; bytes are the random bytes drawn.
CreateCode(body, bytes) == IF Generates(body) THEN generateRoomCode(bytes) ELSE Normalize(body.roomCode)

\* The object literal handed to rooms.set; t holds the Date.now() reads.
NewRoom(roomCode, t) == [code |-> roomCode, createdAt |-> t[1], startTime |-> t[2], previousStartTime |-> t[3], members |-> <<>>, streams |-> {}]

\* A create that puts the new room into the registry before it finds the
\* code taken.
CreateRejected_Replaces(body, bytes) ==
  /\ ops < MaxOps
  /\ CreateCode(body, bytes) \in DOMAIN rooms
  /\ heap' = [heap EXCEPT ![rooms[CreateCode(body, bytes)]] = NewRoom(CreateCode(body, bytes), <<now, now, now>>)]
  /\ last' = [op |-> "create", status |-> 400, body |-> body, code |-> CreateCode(body, bytes), error |-> "Room code already exists", before |-> Before]
  /\ UNCHANGED <<now, rooms, conns, sent, broken, created, minted, assigned, ops, casts, pending>>

\* The request ends in 400: the code is taken.
CreateRejected(body, bytes) ==
  /\ ops < MaxOps
  /\ CreateCode(body, bytes) \in DOMAIN rooms
  /\ last' = [op |-> "create", status |-> 400, body |-> body, code |-> CreateCode(body, bytes), error |-> "Room code already exists", before |-> Before]
  /\ UNCHANGED <<now, rooms, heap, conns, sent, broken, created, minted, assigned, ops, casts, pending>>

CreateRoom(body, bytes, t) ==
  LET roomCode == CreateCode(body, bytes)
  IN  /\ roomCode \notin DOMAIN rooms
      /\ created < MaxRooms
      /\ ops < MaxOps
      /\ ops' = ops + 1
      /\ created' = created + 1
      /\ heap' = heap @@ ((created + 1) :> NewRoom(roomCode, t))
      /\ rooms' = rooms @@ (roomCode :> (created + 1))
      /\ now' = t[4]
      /\ last' = [op |-> "create", status |-> 200, body |-> body, code |-> roomCode, createdAt |-> t[4], before |-> Before]
      /\ UNCHANGED <<conns, sent, broken, minted, assigned, casts, pending>>

\* The random bytes a create request draws: none when no code is generated.
BytesDrawn(body) == IF Generates(body) THEN RandomBytes ELSE {<<>>}

\* A lookup that registers a room under the code it did not find.
NotFound_CreatesRoom(op, code) ==
  /\ ops < MaxOps
  /\ code \notin DOMAIN rooms
  /\ created < MaxRooms
  /\ created' = created + 1
  /\ heap' = heap @@ ((created + 1) :> NewRoom(code, <<now, now, now>>))
  /\ rooms' = rooms @@ (code :> (created + 1))
  /\ last' = [op |-> op, status |-> 404, code |-> code, before |-> Before]
  /\ UNCHANGED <<now, conns, sent, broken, minted, assigned, ops, casts, pending>>

\* A request addressed to a code with no room: 404 and nothing else.
NotFound(op, code) ==
  /\ ops < MaxOps
  /\ code \notin DOMAIN rooms
  /\ last' = [op |-> op, status |-> 404, code |-> code, before |-> Before]
  /\ UNCHANGED <<now, rooms, heap, conns, sent, broken, created, minted, assigned, ops, casts, pending>>

(* ------------------------- applying a handler -------------------------- *)

\* The sendSSE and broadcast calls a handler made, applied in order to the
\* streams' logs. Each call holds the room as it was when the call was made;
\* a sendSSE on one stream is a call on that stream alone.
RECURSIVE Deliver(_, _)
Deliver(logs, calls) == IF calls = <<>> THEN logs ELSE Deliver(Broadcast(logs, calls[1].room, calls[1].event, calls[1].data), Tail(calls))

\* The broadcast calls about a member, added to the record kept per id.
RECURSIVE Announce(_, _)
Announce(record, calls) ==
  IF calls = <<>> THEN record
  ELSE LET call == calls[1]
           id == IF call.event = "member-joined" THEN JsonGet(call.data, "id") ELSE JsonGet(call.data, "memberId")
       IN  IF call.event \in {"member-joined", "member-left"}
           THEN Announce((id :> Append(IF id \in DOMAIN record THEN record[id] ELSE <<>>, call.event)) @@ record, Tail(calls))
           ELSE Announce(record, Tail(calls))

\* The room objects something still refers to: the registry, or the closure
\* of a close handler that has not run. The others are garbage.
Referenced(registry, closures) == Range(registry) \cup {closures[s].room : s \in {x \in DOMAIN closures : ~closures[x].closed}}

Collect(objects, registry, closures) == [r \in (DOMAIN objects \cap Referenced(registry, closures)) |-> objects[r]]

\* rooms.delete(code)
DeleteKey(registry, code) == [c \in (DOMAIN registry \ {code}) |-> registry[c]]

(* ---------------------- POST /rooms/:code/join ------------------------- *)

\* The roomState object of the join response.
RoomState(room) == [code |-> room.code, createdAt |-> room.createdAt, startTime |-> room.startTime, previousStartTime |-> room.previousStartTime, members |-> room.members]

\* A join that overwrites the stored record of a reconnecting member with
\* what the request declares.
JoinEffect_Upsert(room, memberId, profile, uuid, t) ==
  LET member == [id |-> IF memberId # Undefined /\ HasMember(room, memberId) THEN memberId ELSE uuid, name |-> profile.name, timezone |-> profile.timezone, locale |-> profile.locale, joinedAt |-> t]
  IN  IF memberId # Undefined /\ HasMember(room, memberId)
      THEN [room |-> [room EXCEPT !.members = [i \in 1..Len(@) |-> IF @[i].id = memberId THEN member ELSE @[i]]], member |-> member, calls |-> <<>>, fresh |-> FALSE]
      ELSE [room |-> SetMember(room, member), member |-> member, calls |-> <<[room |-> SetMember(room, member), event |-> "member-joined", data |-> MemberJson(member)]>>, fresh |-> TRUE]

\* A join that keeps the id the request carries when the room does not know
\* it, instead of minting one.
JoinEffect_KeepId(room, memberId, profile, uuid, t) ==
  IF memberId # Undefined /\ HasMember(room, memberId)
  THEN [room |-> room, member |-> GetMember(room, memberId), calls |-> <<>>, fresh |-> FALSE]
  ELSE LET member == [id |-> IF memberId # Undefined THEN memberId ELSE uuid, name |-> profile.name, timezone |-> profile.timezone, locale |-> profile.locale, joinedAt |-> t]
           joined == SetMember(room, member)
       IN  [room |-> joined, member |-> member, calls |-> <<[room |-> joined, event |-> "member-joined", data |-> MemberJson(member)]>>, fresh |-> TRUE]

\* A join that mints an id whatever id the request carries.
JoinEffect_AlwaysMints(room, memberId, profile, uuid, t) ==
  LET member == [id |-> uuid, name |-> profile.name, timezone |-> profile.timezone, locale |-> profile.locale, joinedAt |-> t]
      joined == SetMember(room, member)
  IN  [room |-> joined, member |-> member, calls |-> <<[room |-> joined, event |-> "member-joined", data |-> MemberJson(member)]>>, fresh |-> TRUE]

\* A join that starts the room's timer when its first member joins.
JoinEffect_StartsTimer(room, memberId, profile, uuid, t) ==
  IF memberId # Undefined /\ HasMember(room, memberId)
  THEN [room |-> room, member |-> GetMember(room, memberId), calls |-> <<>>, fresh |-> FALSE]
  ELSE LET member == [id |-> uuid, name |-> profile.name, timezone |-> profile.timezone, locale |-> profile.locale, joinedAt |-> t]
           started == IF Len(room.members) = 0 THEN [room EXCEPT !.startTime = t] ELSE room
           joined == SetMember(started, member)
       IN  [room |-> joined, member |-> member, calls |-> <<[room |-> joined, event |-> "member-joined", data |-> MemberJson(member)]>>, fresh |-> TRUE]

\* The body of the join handler once the room is found: uuid is what
\* crypto.randomUUID() returns and t what Date.now() returns, when called.
JoinEffect(room, memberId, profile, uuid, t) ==
  IF memberId # Undefined /\ HasMember(room, memberId)
  THEN [room |-> room, member |-> GetMember(room, memberId), calls |-> <<>>, fresh |-> FALSE]
  ELSE LET member == [id |-> uuid, name |-> profile.name, timezone |-> profile.timezone, locale |-> profile.locale, joinedAt |-> t]
           joined == SetMember(room, member)
       IN  [room |-> joined, member |-> member, calls |-> <<[room |-> joined, event |-> "member-joined", data |-> MemberJson(member)]>>, fresh |-> TRUE]

JoinRoom(code, memberId, profile, t) ==
  /\ code \in DOMAIN rooms
  /\ LET rid == rooms[code]
         eff == JoinEffect(heap[rid], memberId, profile, UUIDs[minted + 1], t[1])
     IN  /\ ops < MaxOps
         /\ eff.fresh => minted < MaxMembers
         /\ now' = IF eff.fresh THEN t[1] ELSE now
         /\ ops' = IF eff.fresh THEN ops + 1 ELSE ops
         /\ minted' = IF eff.fresh THEN minted + 1 ELSE minted
         /\ assigned' = IF eff.fresh THEN Append(assigned, rid) ELSE assigned
         /\ heap' = [heap EXCEPT ![rid] = eff.room]
         /\ sent' = Deliver(sent, eff.calls)
         /\ last' = [op |-> "join", code |-> code, memberId |-> memberId, profile |-> profile, status |-> 200, member |-> eff.member, roomState |-> RoomState(eff.room), before |-> Before]
         /\ casts' = Announce(casts, eff.calls)
         /\ UNCHANGED <<rooms, conns, broken, created, pending>>

(* ---------------------- POST /rooms/:code/reset ------------------------ *)

\* The bodies of the reset request: no startTime, the timestamp 0, the
\* earliest time of the model and the latest one.
ResetBodies == {<<>>} \cup {[startTime |-> t] : t \in {0, 1, MaxTime}}

\* Number(room.startTime): the start times this model stores are numbers,
\* which Number returns as they are.
Number(x) == x

\* startTime || now
StartOrNow(body, t) == IF "startTime" \in DOMAIN body /\ body.startTime # 0 THEN body.startTime ELSE t

\* A reset that takes a start time equal to now for a pending countdown.
ResetEffect_StrictExpiry(room, body, t) ==
  LET currentStart == Number(room.startTime)
      isExpired == currentStart < t
      banked == IF isExpired THEN [room EXCEPT !.previousStartTime = currentStart] ELSE room
      restarted == [banked EXCEPT !.startTime = StartOrNow(body, t)]
  IN  [room |-> restarted, currentStart |-> currentStart, isExpired |-> isExpired, calls |-> <<[room |-> restarted, event |-> "timer-update", data |-> <<<<"startTime", restarted.startTime>>, <<"previousStartTime", restarted.previousStartTime>>>>]>>, response |-> [startTime |-> restarted.startTime]]

\* A reset that broadcasts before it stores the new start time.
ResetEffect_BroadcastFirst(room, body, t) ==
  LET currentStart == Number(room.startTime)
      isExpired == currentStart <= t
      banked == IF isExpired THEN [room EXCEPT !.previousStartTime = currentStart] ELSE room
      restarted == [banked EXCEPT !.startTime = StartOrNow(body, t)]
  IN  [room |-> restarted, currentStart |-> currentStart, isExpired |-> isExpired, calls |-> <<[room |-> banked, event |-> "timer-update", data |-> <<<<"startTime", banked.startTime>>, <<"previousStartTime", banked.previousStartTime>>>>]>>, response |-> [startTime |-> restarted.startTime]]

\* A reset that banks the current start whether or not it has passed.
ResetEffect_AlwaysBanks(room, body, t) ==
  LET currentStart == Number(room.startTime)
      banked == [room EXCEPT !.previousStartTime = currentStart]
      restarted == [banked EXCEPT !.startTime = StartOrNow(body, t)]
  IN  [room |-> restarted, currentStart |-> currentStart, isExpired |-> TRUE, calls |-> <<[room |-> restarted, event |-> "timer-update", data |-> <<<<"startTime", restarted.startTime>>, <<"previousStartTime", restarted.previousStartTime>>>>]>>, response |-> [startTime |-> restarted.startTime]]

\* The body of the reset handler once the room is found; t is Date.now().
ResetEffect(room, body, t) ==
  LET currentStart == Number(room.startTime)
      isExpired == currentStart <= t
      banked == IF isExpired THEN [room EXCEPT !.previousStartTime = currentStart] ELSE room
      restarted == [banked EXCEPT !.startTime = StartOrNow(body, t)]
  IN  [room |-> restarted, currentStart |-> currentStart, isExpired |-> isExpired, calls |-> <<[room |-> restarted, event |-> "timer-update", data |-> <<<<"startTime", restarted.startTime>>, <<"previousStartTime", restarted.previousStartTime>>>>]>>, response |-> [startTime |-> restarted.startTime]]

ResetTimer(code, body, t) ==
  /\ code \in DOMAIN rooms
  /\ LET rid == rooms[code]
         eff == ResetEffect(heap[rid], body, t[1])
     IN  /\ ops < MaxOps
         /\ now' = t[1]
         /\ ops' = ops + 1
         /\ heap' = [heap EXCEPT ![rid] = eff.room]
         /\ sent' = Deliver(sent, eff.calls)
         /\ last' = [op |-> "reset", code |-> code, body |-> body, status |-> 200, now |-> t[1], currentStart |-> eff.currentStart, isExpired |-> eff.isExpired, response |-> eff.response, before |-> Before]
         /\ UNCHANGED <<rooms, conns, broken, created, minted, assigned, casts, pending>>

(* ---------------------- POST /rooms/:code/leave ------------------------ *)

\* A leave that does not ask whether the member is there.
LeaveEffect_Unchecked(room, memberId) ==
  LET left == DeleteMember(room, memberId)
  IN  [room |-> left, removed |-> TRUE, calls |-> <<[room |-> left, event |-> "member-left", data |-> <<<<"memberId", memberId>>>>]>>]

\* A leave that removes the member and tells nobody.
LeaveEffect_Silent(room, memberId) ==
  IF HasMember(room, memberId)
  THEN [room |-> DeleteMember(room, memberId), removed |-> TRUE, calls |-> <<>>]
  ELSE [room |-> room, removed |-> FALSE, calls |-> <<>>]

\* The body of the leave handler when rooms.get(code) found a room.
LeaveEffect(room, memberId) ==
  IF HasMember(room, memberId)
  THEN LET left == DeleteMember(room, memberId)
       IN  [room |-> left, removed |-> TRUE, calls |-> <<[room |-> left, event |-> "member-left", data |-> <<<<"memberId", memberId>>>>]>>]
  ELSE [room |-> room, removed |-> FALSE, calls |-> <<>>]

\* rooms.get(code) is undefined: the guard fails, and the response is 204.
LeaveNoRoom(code) ==
  /\ ops < MaxOps
  /\ code \notin DOMAIN rooms
  /\ last' = [op |-> "leave", status |-> 204, code |-> code, before |-> Before]
  /\ UNCHANGED <<now, rooms, heap, conns, sent, broken, created, minted, assigned, ops, casts, pending>>

\* A leave that deletes the room when it leaves it empty.
LeaveRoom_Cleans(code, memberId) ==
  /\ code \in DOMAIN rooms
  /\ LET rid == rooms[code]
         eff == LeaveEffect(heap[rid], memberId)
         empty == Len(eff.room.members) = 0 /\ eff.room.streams = {}
     IN  /\ ops < MaxOps
         /\ ops' = IF eff.removed THEN ops + 1 ELSE ops
         /\ rooms' = IF empty THEN DeleteKey(rooms, code) ELSE rooms
         /\ heap' = Collect([heap EXCEPT ![rid] = eff.room], rooms', conns)
         /\ sent' = Deliver(sent, eff.calls)
         /\ last' = [op |-> "leave", status |-> 204, code |-> code, memberId |-> memberId, before |-> Before]
         /\ casts' = Announce(casts, eff.calls)
         /\ UNCHANGED <<now, conns, broken, created, minted, assigned, pending>>

LeaveRoom(code, memberId) ==
  /\ code \in DOMAIN rooms
  /\ LET rid == rooms[code]
         eff == LeaveEffect(heap[rid], memberId)
     IN  /\ ops < MaxOps
         /\ ops' = IF eff.removed THEN ops + 1 ELSE ops
         /\ heap' = [heap EXCEPT ![rid] = eff.room]
         /\ sent' = Deliver(sent, eff.calls)
         /\ last' = [op |-> "leave", status |-> 204, code |-> code, memberId |-> memberId, before |-> Before]
         /\ casts' = Announce(casts, eff.calls)
         /\ UNCHANGED <<now, rooms, conns, broken, created, minted, assigned, pending>>

(* --------------------------- GET /events ------------------------------- *)

\* A snapshot that still takes the timer's start from the room's creation.
InitJson_CreatedAsStart(room) == <<<<"createdAt", room.createdAt>>, <<"startTime", room.createdAt>>, <<"previousStartTime", room.previousStartTime>>, <<"code", room.code>>, <<"members", MembersJson(room.members)>>>>

\* The init payload, read from the room after the stream was added.
InitJson(room) == <<<<"createdAt", room.createdAt>>, <<"startTime", room.startTime>>, <<"previousStartTime", room.previousStartTime>>, <<"code", room.code>>, <<"members", MembersJson(room.members)>>>>

\* An /events handler that broadcasts init to the whole room.
OpenEffect_BroadcastInit(room, s) ==
  LET attached == [room EXCEPT !.streams = @ \cup {s}]
  IN  [room |-> attached, calls |-> <<[room |-> attached, event |-> "init", data |-> InitJson(attached)]>>]

\* The /events handler once the room is found; s is the new response stream.
OpenEffect(room, s) ==
  LET attached == [room EXCEPT !.streams = @ \cup {s}]
  IN  [room |-> attached, calls |-> <<[room |-> [streams |-> {s}], event |-> "init", data |-> InitJson(attached)]>>]

StreamOpen(code, memberId) ==
  /\ code \in DOMAIN rooms
  /\ LET rid == rooms[code]
         s == Len(conns) + 1
         eff == OpenEffect(heap[rid], s)
     IN  /\ Len(conns) < MaxStreams
         /\ ops < MaxOps
         /\ ops' = ops + 1
         /\ conns' = Append(conns, [code |-> code, memberId |-> memberId, room |-> rid, closed |-> FALSE])
         /\ heap' = [heap EXCEPT ![rid] = eff.room]
         /\ sent' = Deliver(Append(sent, <<>>), eff.calls)
         /\ last' = [op |-> "open", code |-> code, memberId |-> memberId, status |-> 200, stream |-> s, before |-> Before]
         /\ UNCHANGED <<now, rooms, broken, created, minted, assigned, casts, pending>>

\* A close handler that removes the member and broadcasts before it takes
\* the stream out of room.streams.
CloseEffect_BroadcastFirst(room, s, memberId) ==
  LET present == memberId # Undefined /\ HasMember(room, memberId)
      left == IF present THEN DeleteMember(room, memberId) ELSE room
      detached == [left EXCEPT !.streams = @ \ {s}]
  IN  [room |-> detached, removed |-> present, calls |-> IF present THEN <<[room |-> left, event |-> "member-left", data |-> <<<<"memberId", memberId>>>>]>> ELSE <<>>, delete |-> (Len(detached.members) = 0 /\ detached.streams = {})]

\* A close handler that deletes the room once no stream is left, whatever
\* members it has.
CloseEffect_IgnoresMembers(room, s, memberId) ==
  LET detached == [room EXCEPT !.streams = @ \ {s}]
      present == memberId # Undefined /\ HasMember(detached, memberId)
      left == IF present THEN DeleteMember(detached, memberId) ELSE detached
  IN  [room |-> left, removed |-> present, calls |-> IF present THEN <<[room |-> left, event |-> "member-left", data |-> <<<<"memberId", memberId>>>>]>> ELSE <<>>, delete |-> (left.streams = {})]

\* A close handler that keeps the member while another stream opened with
\* the same id is attached to the room.
CloseEffect_KeepsWhileAttached(room, s, memberId) ==
  LET detached == [room EXCEPT !.streams = @ \ {s}]
      present == memberId # Undefined /\ HasMember(detached, memberId) /\ ~(\E o \in detached.streams : conns[o].memberId = memberId)
      left == IF present THEN DeleteMember(detached, memberId) ELSE detached
  IN  [room |-> left, removed |-> present, calls |-> IF present THEN <<[room |-> left, event |-> "member-left", data |-> <<<<"memberId", memberId>>>>]>> ELSE <<>>, delete |-> (Len(left.members) = 0 /\ left.streams = {})]

\* A close handler that broadcasts member-left for the id of its stream
\* whether or not the room still has that member.
CloseEffect_AlwaysAnnounces(room, s, memberId) ==
  LET detached == [room EXCEPT !.streams = @ \ {s}]
      present == memberId # Undefined /\ HasMember(detached, memberId)
      left == IF present THEN DeleteMember(detached, memberId) ELSE detached
  IN  [room |-> left, removed |-> present, calls |-> IF memberId # Undefined THEN <<[room |-> left, event |-> "member-left", data |-> <<<<"memberId", memberId>>>>]>> ELSE <<>>, delete |-> (Len(left.members) = 0 /\ left.streams = {})]

\* A close handler that leaves the stream in room.streams.
CloseEffect_NeverDetaches(room, s, memberId) ==
  LET present == memberId # Undefined /\ HasMember(room, memberId)
      left == IF present THEN DeleteMember(room, memberId) ELSE room
  IN  [room |-> left, removed |-> present, calls |-> IF present THEN <<[room |-> left, event |-> "member-left", data |-> <<<<"memberId", memberId>>>>]>> ELSE <<>>, delete |-> (Len(left.members) = 0 /\ left.streams = {})]

\* req.on("close") of stream s, on the room object the handler captured.
CloseEffect(room, s, memberId) ==
  LET detached == [room EXCEPT !.streams = @ \ {s}]
      present == memberId # Undefined /\ HasMember(detached, memberId)
      left == IF present THEN DeleteMember(detached, memberId) ELSE detached
  IN  [room |-> left, removed |-> present, calls |-> IF present THEN <<[room |-> left, event |-> "member-left", data |-> <<<<"memberId", memberId>>>>]>> ELSE <<>>, delete |-> (Len(left.members) = 0 /\ left.streams = {})]

StreamClose(s) ==
  LET c == conns[s]
      eff == CloseEffect(heap[c.room], s, c.memberId)
  IN  /\ ~c.closed
      /\ ops < MaxOps
      /\ ops' = ops + 1
      /\ conns' = [conns EXCEPT ![s].closed = TRUE]
      /\ rooms' = IF eff.delete THEN DeleteKey(rooms, c.code) ELSE rooms
      /\ heap' = Collect([heap EXCEPT ![c.room] = eff.room], rooms', conns')
      /\ sent' = Deliver([sent EXCEPT ![s] = <<>>], eff.calls)
      /\ last' = [op |-> "close", stream |-> s, code |-> c.code, memberId |-> c.memberId, room |-> c.room, before |-> Before]
      /\ broken' = broken \ {s}
      /\ casts' = Announce(casts, eff.calls)
      /\ UNCHANGED <<now, created, minted, assigned, pending>>

\* The transport of stream s fails: from now on res.write on it throws,
\* until its close event is delivered.
TransportFail(s) ==
  /\ ~conns[s].closed
  /\ s \notin broken
  /\ ops < MaxOps
  /\ ops' = ops + 1
  /\ broken' = broken \cup {s}
  /\ last' = [op |-> "fail", stream |-> s, before |-> Before]
  /\ UNCHANGED <<now, rooms, heap, conns, sent, created, minted, assigned, casts, pending>>

Next ==
  \/ \E body \in CreateBodies : \E bytes \in BytesDrawn(body) : CreateRejected(body, bytes)
  \/ \E body \in CreateBodies : \E bytes \in BytesDrawn(body) : \E t \in ClockReads(4) : CreateRoom(body, bytes, t)
  \/ \E code \in LookupCodes : NotFound("join", code)
  \/ \E code \in LookupCodes, memberId \in MemberIdInputs, profile \in Profiles : \E t \in ClockReads(1) : JoinRoom(code, memberId, profile, t)
  \/ \E code \in LookupCodes : NotFound("reset", code)
  \/ \E code \in LookupCodes, body \in ResetBodies : \E t \in ClockReads(1) : ResetTimer(code, body, t)
  \/ \E code \in LookupCodes : LeaveNoRoom(code)
  \/ \E code \in LookupCodes, memberId \in MemberIdInputs : LeaveRoom(code, memberId)
  \/ \E code \in LookupCodes : NotFound("open", code)
  \/ \E code \in LookupCodes, memberId \in MemberIdInputs : StreamOpen(code, memberId)
  \/ \E s \in Streams : StreamClose(s)
  \/ \E s \in Streams : TransportFail(s)

Spec == Init /\ [][Next]_vars

(* ------------- the plain-http server (src/backend/server.js) ----------- *)
(* The request listener runs when the head of a request has arrived; the    *)
(* body of a POST is handled later, in the callback of its "end" event.     *)
(* Between the two, other listeners and callbacks may run.                  *)

\* rooms.get(code) of a code with no room.
NoRoom == 0

\* The object literal handed to rooms.set; t holds the Date.now() reads.
HttpNewRoom(roomCode, t) == [code |-> roomCode, createdAt |-> t[1], members |-> <<>>, streams |-> {}]

\* The room objects something still refers to, requests that wait for their
\* body included.
HttpCollect(objects, registry, closures, waiting) == [r \in (DOMAIN objects \cap (Referenced(registry, closures) \cup {w.room : w \in waiting})) |-> objects[r]]

\* CREATE ROOM, "end" callback: the code is taken.
HttpCreateRejected(body, bytes) ==
  /\ ops < MaxOps
  /\ CreateCode(body, bytes) \in DOMAIN rooms
  /\ last' = [op |-> "create", status |-> 400, body |-> body, code |-> CreateCode(body, bytes), error |-> "Room code already exists", before |-> Before]
  /\ UNCHANGED <<now, rooms, heap, conns, sent, broken, created, minted, assigned, casts, pending, ops>>

\* CREATE ROOM, "end" callback.
HttpCreateRoom(body, bytes, t) ==
  LET roomCode == CreateCode(body, bytes)
  IN  /\ roomCode \notin DOMAIN rooms
      /\ created < MaxRooms
      /\ ops < MaxOps
      /\ ops' = ops + 1
      /\ created' = created + 1
      /\ heap' = heap @@ ((created + 1) :> HttpNewRoom(roomCode, t))
      /\ rooms' = rooms @@ (roomCode :> (created + 1))
      /\ now' = t[2]
      /\ last' = [op |-> "create", status |-> 200, body |-> body, code |-> roomCode, createdAt |-> t[2], before |-> Before]
      /\ UNCHANGED <<conns, sent, broken, minted, assigned, casts, pending>>

\* SSE and JOIN ROOM, request listener: no room under the code.
HttpNotFound(op, code) ==
  /\ ops < MaxOps
  /\ code \notin DOMAIN rooms
  /\ last' = [op |-> op, status |-> 404, code |-> code, before |-> Before]
  /\ UNCHANGED <<now, rooms, heap, conns, sent, broken, created, minted, assigned, casts, pending, ops>>

\* JOIN ROOM, request listener: the room is looked up and kept by the
\* callbacks that wait for the body.
HttpJoinArrive(code) ==
  /\ ops < MaxOps
  /\ code \in DOMAIN rooms
  /\ Cardinality(pending) < MaxPending
  /\ [op |-> "join", code |-> code, room |-> rooms[code]] \notin pending
  /\ ops' = ops + 1
  /\ pending' = pending \cup {[op |-> "join", code |-> code, room |-> rooms[code]]}
  /\ last' = [op |-> "arrive", code |-> code, before |-> Before]
  /\ UNCHANGED <<now, rooms, heap, conns, sent, broken, created, minted, assigned, casts>>

\* The roomState object of the join response.
HttpRoomState(room) == [code |-> room.code, createdAt |-> room.createdAt, members |-> room.members]

\* JOIN ROOM, "end" callback: on the room the listener looked up.
HttpJoinEnd(req, memberId, profile, t) ==
  /\ req \in pending
  /\ req.op = "join"
  /\ LET eff == JoinEffect(heap[req.room], memberId, profile, UUIDs[minted + 1], t[1])
     IN  /\ ops < MaxOps
         /\ eff.fresh => minted < MaxMembers
         /\ now' = IF eff.fresh THEN t[1] ELSE now
         /\ ops' = IF eff.fresh THEN ops + 1 ELSE ops
         /\ minted' = IF eff.fresh THEN minted + 1 ELSE minted
         /\ assigned' = IF eff.fresh THEN Append(assigned, req.room) ELSE assigned
         /\ pending' = pending \ {req}
         /\ heap' = HttpCollect([heap EXCEPT ![req.room] = eff.room], rooms, conns, pending')
         /\ sent' = Deliver(sent, eff.calls)
         /\ casts' = Announce(casts, eff.calls)
         /\ last' = [op |-> "join", code |-> req.code, memberId |-> memberId, profile |-> profile, status |-> 200, member |-> eff.member, roomState |-> HttpRoomState(eff.room), before |-> Before]
         /\ UNCHANGED <<rooms, conns, broken, created>>

\* LEAVE ROOM, request listener: rooms.get(code), a room or undefined, is
\* kept by the callbacks that wait for the body.
HttpLeaveArrive(code) ==
  LET req == [op |-> "leave", code |-> code, room |-> IF code \in DOMAIN rooms THEN rooms[code] ELSE NoRoom]
  IN  /\ ops < MaxOps
      /\ Cardinality(pending) < MaxPending
      /\ req \notin pending
      /\ ops' = ops + 1
      /\ pending' = pending \cup {req}
      /\ last' = [op |-> "arrive", code |-> code, before |-> Before]
      /\ UNCHANGED <<now, rooms, heap, conns, sent, broken, created, minted, assigned, casts>>

\* LEAVE ROOM, "end" callback.
HttpLeaveEnd(req, memberId) ==
  /\ req \in pending
  /\ req.op = "leave"
  /\ LET eff == IF req.room = NoRoom THEN [room |-> NoRoom, removed |-> FALSE, calls |-> <<>>] ELSE LeaveEffect(heap[req.room], memberId)
     IN  /\ ops < MaxOps
         /\ ops' = IF eff.removed THEN ops + 1 ELSE ops
         /\ pending' = pending \ {req}
         /\ heap' = HttpCollect(IF req.room = NoRoom THEN heap ELSE [heap EXCEPT ![req.room] = eff.room], rooms, conns, pending')
         /\ sent' = Deliver(sent, eff.calls)
         /\ casts' = Announce(casts, eff.calls)
         /\ last' = [op |-> "leave", status |-> 204, code |-> req.code, memberId |-> memberId, before |-> Before]
         /\ UNCHANGED <<now, rooms, conns, broken, created, minted, assigned>>

\* The init payload of the plain-http server.
HttpInitJson(room) == <<<<"createdAt", room.createdAt>>, <<"code", room.code>>, <<"members", MembersJson(room.members)>>>>

\* SSE, request listener, once the room is found.
HttpStreamOpen(code, memberId) ==
  /\ code \in DOMAIN rooms
  /\ LET rid == rooms[code]
         s == Len(conns) + 1
         attached == [heap[rid] EXCEPT !.streams = @ \cup {s}]
     IN  /\ Len(conns) < MaxStreams
         /\ ops < MaxOps
         /\ ops' = ops + 1
         /\ conns' = Append(conns, [code |-> code, memberId |-> memberId, room |-> rid, closed |-> FALSE])
         /\ heap' = [heap EXCEPT ![rid] = attached]
         /\ sent' = Append(sent, SendSSE(<<>>, s, "init", HttpInitJson(attached)))
         /\ last' = [op |-> "open", code |-> code, memberId |-> memberId, status |-> 200, stream |-> s, before |-> Before]
         /\ UNCHANGED <<now, rooms, broken, created, minted, assigned, casts, pending>>

\* SSE, req.on("close") of stream s.
HttpStreamClose(s) ==
  LET c == conns[s]
      eff == CloseEffect(heap[c.room], s, c.memberId)
  IN  /\ ~c.closed
      /\ ops < MaxOps
      /\ ops' = ops + 1
      /\ conns' = [conns EXCEPT ![s].closed = TRUE]
      /\ rooms' = IF eff.delete THEN DeleteKey(rooms, c.code) ELSE rooms
      /\ heap' = HttpCollect([heap EXCEPT ![c.room] = eff.room], rooms', conns', pending)
      /\ sent' = Deliver([sent EXCEPT ![s] = <<>>], eff.calls)
      /\ casts' = Announce(casts, eff.calls)
      /\ last' = [op |-> "close", stream |-> s, code |-> c.code, memberId |-> c.memberId, room |-> c.room, before |-> Before]
      /\ broken' = broken \ {s}
      /\ UNCHANGED <<now, created, minted, assigned, pending>>

NextHttp ==
  \/ \E body \in CreateBodies : \E bytes \in BytesDrawn(body) : HttpCreateRejected(body, bytes)
  \/ \E body \in CreateBodies : \E bytes \in BytesDrawn(body) : \E t \in ClockReads(2) : HttpCreateRoom(body, bytes, t)
  \/ \E code \in LookupCodes : HttpNotFound("join", code)
  \/ \E code \in LookupCodes : HttpJoinArrive(code)
  \/ \E req \in pending, memberId \in MemberIdInputs, profile \in Profiles : \E t \in ClockReads(1) : HttpJoinEnd(req, memberId, profile, t)
  \/ \E code \in LookupCodes : HttpLeaveArrive(code)
  \/ \E req \in pending, memberId \in MemberIdInputs : HttpLeaveEnd(req, memberId)
  \/ \E code \in LookupCodes : HttpNotFound("open", code)
  \/ \E code \in LookupCodes, memberId \in MemberIdInputs : HttpStreamOpen(code, memberId)
  \/ \E s \in Streams : HttpStreamClose(s)
  \/ \E s \in Streams : TransportFail(s)

SpecHttp == Init /\ [][NextHttp]_vars

(* ------------------- the client's copy of the room --------------------- *)

\* What setupRoomUI holds before any event: no creation time, no member, and
\* no timer.
EmptyView == [roomCreatedAt |-> Undefined, members |-> <<>>, startTime |-> Undefined, previousStartTime |-> Undefined]

\* JSON.parse of a member.
ParseMember(m) == [id |-> JsonGet(m, "id"), name |-> JsonGet(m, "name"), timezone |-> JsonGet(m, "timezone"), locale |-> JsonGet(m, "locale"), joinedAt |-> JsonGet(m, "joinedAt")]

\* members.set(m.id, m): a known id keeps its place and gets the new value.
MapSet(members, m) == IF \E i \in 1..Len(members) : members[i].id = m.id THEN [i \in 1..Len(members) |-> IF members[i].id = m.id THEN m ELSE members[i]] ELSE Append(members, m)

\* data.members.forEach(m => members.set(m.id, m))
RECURSIVE SetAll(_, _)
SetAll(members, list) == IF list = <<>> THEN members ELSE SetAll(MapSet(members, ParseMember(list[1])), Tail(list))

\* The init listener.
OnInit(view, data) == [view EXCEPT !.roomCreatedAt = JsonGet(data, "createdAt"), !.members = SetAll(<<>>, JsonGet(data, "members"))]

\* The member-joined listener.
OnMemberJoined(view, data) == [view EXCEPT !.members = MapSet(@, ParseMember(data))]

\* The member-left listener.
OnMemberLeft(view, data) == [view EXCEPT !.members = KeepOthers(@, JsonGet(data, "memberId"))]

\* The timer of the payload overwrites the timer held.
OnTimer(view, data) == [view EXCEPT !.startTime = JsonGet(data, "startTime"), !.previousStartTime = JsonGet(data, "previousStartTime")]

\* One event delivered to the client.
OnEvent(view, entry) ==
  CASE entry.event = "init" -> OnTimer(OnInit(view, entry.data), entry.data)
    [] entry.event = "member-joined" -> OnMemberJoined(view, entry.data)
    [] entry.event = "member-left" -> OnMemberLeft(view, entry.data)
    [] entry.event = "timer-update" -> OnTimer(view, entry.data)
    [] OTHER -> view

\* The copy a client holds after the events of a log, in order; an event
\* whose write failed is not delivered.
RECURSIVE Replay(_, _)
Replay(view, log) == IF log = <<>> THEN view ELSE Replay(IF log[1].ok THEN OnEvent(view, log[1]) ELSE view, Tail(log))

(* ------------------------------ properties ----------------------------- *)

\* The room object the last handler found under its code, as it was before
\* the handler ran, and as it is now.
FoundBefore == last.before.heap[last.before.rooms[last.code]]

FoundNow == heap[last.before.rooms[last.code]]

IsEmptyRoom(room) == Len(room.members) = 0 /\ room.streams = {}

MemberIds(room) == {room.members[i].id : i \in 1..Len(room.members)}

\* The last handler was a leave that removed a member.
LeaveRemoved == last.op = "leave" /\ last.code \in DOMAIN last.before.rooms /\ HasMember(FoundBefore, last.memberId)

\* The room object a removing handler acted on.
RemovedFrom == IF last.op = "close" THEN last.room ELSE last.before.rooms[last.code]

\* C1: when a leave or a stream close leaves its room with no member and no
\* subscriber, the room is gone from the registry once the handler is done.
C1_EmptyRoomIsRemoved == (LeaveRemoved \/ last.op = "close") => \A c \in DOMAIN rooms : rooms[c] = RemovedFrom => ~IsEmptyRoom(heap[rooms[c]])

\* The last handler was a join with the id of a member the room then had.
IsReconnect == last.op = "join" /\ last.status = 200 /\ last.memberId # Undefined /\ HasMember(FoundBefore, last.memberId)

\* C2: a join carrying the id of a current member of the room returns that
\* member's record as stored, changes no room, mints no id and writes no
\* event to any stream.
C2_ReconnectIsIdempotent ==
  IsReconnect =>
    /\ last.member = GetMember(FoundBefore, last.memberId)
    /\ last.member.id = last.memberId
    /\ last.roomState.members = FoundBefore.members
    /\ heap = last.before.heap
    /\ rooms = last.before.rooms
    /\ sent = last.before.sent
    /\ last.member.id \in Minted

\* A reconnect that declares another name than the stored one, in a room
\* with a subscriber.
C2_Witness == IsReconnect /\ last.profile.name # last.member.name /\ FoundBefore.streams # {}

\* The last handler was a join that did not resolve to a member of the room.
IsFreshJoin == last.op = "join" /\ last.status = 200 /\ ~(last.memberId # Undefined /\ HasMember(FoundBefore, last.memberId))

\* The sendSSE call that a log got on top of what it held before.
Appended(s) == sent[s][Len(sent[s])]

GotOneMore(s) == Len(sent[s]) = Len(last.before.sent[s]) + 1 /\ SubSeq(sent[s], 1, Len(sent[s]) - 1) = last.before.sent[s]

\* The ids of the members of all room objects, before the last handler.
IdsBefore == UNION {MemberIds(last.before.heap[r]) : r \in DOMAIN last.before.heap}

\* C3: a join that does not resolve to a member of the room mints an id that
\* was never handed out, appends one member under it, and makes one
\* member-joined call with that member's record on every stream of the room
\* and on no other stream.
C3_FreshJoinMintsAndBroadcasts ==
  IsFreshJoin =>
    /\ last.member.id = UUIDs[minted]
    /\ last.member.id \notin {UUIDs[i] : i \in 1..(minted - 1)}
    /\ last.member.id \notin IdsBefore
    /\ last.member.id # last.memberId
    /\ last.member = [id |-> last.member.id, name |-> last.profile.name, timezone |-> last.profile.timezone, locale |-> last.profile.locale, joinedAt |-> now]
    /\ FoundNow = [FoundBefore EXCEPT !.members = Append(@, last.member)]
    /\ \A r \in DOMAIN heap : r # last.before.rooms[last.code] => heap[r] = last.before.heap[r]
    /\ \A s \in DOMAIN sent :
         IF s \in FoundBefore.streams
         THEN /\ GotOneMore(s)
              /\ Appended(s).event = "member-joined"
              /\ Len(Appended(s).data) = 5
              /\ JsonGet(Appended(s).data, "id") = last.member.id
              /\ JsonGet(Appended(s).data, "name") = last.member.name
              /\ JsonGet(Appended(s).data, "timezone") = last.member.timezone
              /\ JsonGet(Appended(s).data, "locale") = last.member.locale
              /\ JsonGet(Appended(s).data, "joinedAt") = last.member.joinedAt
         ELSE sent[s] = last.before.sent[s]

\* A fresh join while the room and another room each have a subscriber.
C3_Witness == IsFreshJoin /\ FoundBefore.streams # {} /\ \E s \in DOMAIN sent : s \notin FoundBefore.streams /\ sent[s] # <<>>

\* The last handler was a reset of an existing room.
IsReset == last.op = "reset" /\ last.status = 200

\* C4: a reset of a room whose startTime is at or before now stores that
\* startTime as previousStartTime; a reset of a room whose startTime is
\* still ahead leaves previousStartTime as it was.
C4_BankingRule ==
  IsReset =>
    /\ last.now = now
    /\ FoundBefore.startTime <= last.now => FoundNow.previousStartTime = FoundBefore.startTime
    /\ FoundBefore.startTime > last.now => FoundNow.previousStartTime = FoundBefore.previousStartTime

\* A reset, to another requested start, of a countdown that is still pending.
C4_Witness == IsReset /\ FoundBefore.startTime > last.now /\ "startTime" \in DOMAIN last.body /\ FoundNow.startTime # FoundBefore.startTime /\ FoundBefore.previousStartTime # FoundBefore.startTime

\* C5: after a reset the room's startTime is the requested start time
\* whenever the request carries one, and now only when it carries none.
C5_StartIsRequested == IsReset => FoundNow.startTime = IF "startTime" \in DOMAIN last.body THEN last.body.startTime ELSE last.now

\* C6: a reset makes one timer-update call on every stream of the room and
\* on no other; the event carries the startTime and previousStartTime the
\* room holds after the reset, and the response carries the stored startTime.
C6_ResetBroadcastsNewValues ==
  IsReset =>
    /\ last.response.startTime = FoundNow.startTime
    /\ FoundNow.streams = FoundBefore.streams
    /\ \A s \in DOMAIN sent :
         IF s \in FoundBefore.streams
         THEN /\ GotOneMore(s)
              /\ Appended(s).event = "timer-update"
              /\ Len(Appended(s).data) = 2
              /\ JsonGet(Appended(s).data, "startTime") = FoundNow.startTime
              /\ JsonGet(Appended(s).data, "previousStartTime") = FoundNow.previousStartTime
         ELSE sent[s] = last.before.sent[s]

\* A reset, in a room with a subscriber, that changes both values.
C6_Witness == IsReset /\ FoundBefore.streams # {} /\ FoundNow.startTime # FoundBefore.startTime /\ FoundNow.previousStartTime # FoundBefore.previousStartTime

\* The last handler opened a stream on an existing room.
IsOpen == last.op = "open" /\ last.status = 200

\* C7: a stream opened on a room joins the room's streams and gets one init
\* call, the first call made on it; no init is ever made on it again, and
\* the init of a new stream is made on no other stream.
C7_InitOnceAndFirst ==
  /\ \A s \in Streams :
       IF conns[s].closed
       THEN \A i \in 1..Len(sent[s]) : sent[s][i].event # "init"
       ELSE /\ s \in heap[conns[s].room].streams
            /\ Len(sent[s]) >= 1
            /\ sent[s][1].event = "init"
            /\ \A i \in 2..Len(sent[s]) : sent[s][i].event # "init"
  /\ IsOpen =>
       /\ last.stream \notin DOMAIN last.before.sent
       /\ FoundNow.streams = FoundBefore.streams \cup {last.stream}
       /\ \A s \in DOMAIN last.before.sent : sent[s] = last.before.sent[s]

\* A stream is opened on a room that has a subscriber who got events since.
C7_Witness == IsOpen /\ \E s \in FoundBefore.streams : Len(sent[s]) >= 2

\* C8: the init payload of a new stream holds the code, createdAt, startTime,
\* previousStartTime and members of the room it was attached to, as they are
\* in the one state in which the stream was attached.
C8_InitIsSnapshot ==
  IsOpen =>
    LET init == sent[last.stream][1].data
        list == JsonGet(init, "members")
    IN  /\ Len(sent[last.stream]) = 1
        /\ Len(init) = 5
        /\ \A k \in {"code", "createdAt", "startTime", "previousStartTime", "members"} : JsonHas(init, k)
        /\ JsonGet(init, "code") = FoundNow.code
        /\ JsonGet(init, "createdAt") = FoundNow.createdAt
        /\ JsonGet(init, "startTime") = FoundNow.startTime
        /\ JsonGet(init, "previousStartTime") = FoundNow.previousStartTime
        /\ Len(list) = Len(FoundNow.members)
        /\ \A i \in 1..Len(list) : \A k \in {"id", "name", "timezone", "locale", "joinedAt"} : JsonGet(list[i], k) = FoundNow.members[i][k]
        /\ [FoundNow EXCEPT !.streams = {}] = [FoundBefore EXCEPT !.streams = {}]

\* A stream is opened on a room with a member whose timer was reset to a
\* start that is neither its creation time nor its previous start.
C8_Witness == IsOpen /\ Len(FoundNow.members) > 0 /\ FoundNow.startTime # FoundNow.createdAt /\ FoundNow.startTime # FoundNow.previousStartTime

\* The last handler was the close handler of a stream.
IsClose == last.op = "close"

\* The room the closed stream was attached to, before its close handler ran.
ClosedBefore == last.before.heap[last.room]

\* The stream was opened with the id of a member the room still had.
ClosedMemberPresent == last.memberId # Undefined /\ HasMember(ClosedBefore, last.memberId)

\* What the close handler is to leave of the room's streams and members.
ClosedStreams == ClosedBefore.streams \ {last.stream}

ClosedMembers == IF ClosedMemberPresent THEN SelectSeq(ClosedBefore.members, LAMBDA m : m.id # last.memberId) ELSE ClosedBefore.members

\* C9: a close takes the stream out of the room's streams first, then, if
\* the stream was opened with the id of a member still in the room, removes
\* that member and makes one member-left call on each remaining stream, and
\* last deletes the room if it has no member and no stream left. Without
\* such a member, no member is removed and no call is made.
C9_CloseOrder ==
  IsClose =>
    /\ sent[last.stream] = <<>>
    /\ \A s \in DOMAIN sent \ {last.stream} :
         IF ClosedMemberPresent /\ s \in ClosedStreams
         THEN /\ GotOneMore(s)
              /\ Appended(s).event = "member-left"
              /\ Len(Appended(s).data) = 1
              /\ JsonGet(Appended(s).data, "memberId") = last.memberId
         ELSE sent[s] = last.before.sent[s]
    /\ IF Len(ClosedMembers) = 0 /\ ClosedStreams = {}
       THEN /\ last.code \notin DOMAIN rooms
            /\ last.room \notin DOMAIN heap
       ELSE /\ rooms = last.before.rooms
            /\ heap[last.room] = [ClosedBefore EXCEPT !.streams = ClosedStreams, !.members = ClosedMembers]
    /\ \A r \in DOMAIN last.before.heap \ {last.room} : r \in DOMAIN heap /\ heap[r] = last.before.heap[r]

\* A close that removes its member while another stream of the room stays.
C9_Witness == IsClose /\ ClosedMemberPresent /\ ClosedStreams # {}

\* C10: a leave answers 204; when the room has the member it removes it and
\* makes one member-left call on every stream of the room; when the member
\* or the room is absent it changes no room and makes no call.
C10_LeaveExactlyWhenPresent ==
  last.op = "leave" =>
    /\ last.status = 204
    /\ IF LeaveRemoved
       THEN /\ FoundNow = [FoundBefore EXCEPT !.members = SelectSeq(@, LAMBDA m : m.id # last.memberId)]
            /\ Len(FoundNow.members) = Len(FoundBefore.members) - 1
            /\ \A r \in DOMAIN last.before.heap : r # last.before.rooms[last.code] => heap[r] = last.before.heap[r]
            /\ \A s \in DOMAIN sent :
                 IF s \in FoundBefore.streams
                 THEN /\ GotOneMore(s)
                      /\ Appended(s).event = "member-left"
                      /\ Len(Appended(s).data) = 1
                      /\ JsonGet(Appended(s).data, "memberId") = last.memberId
                 ELSE sent[s] = last.before.sent[s]
       ELSE /\ heap = last.before.heap
            /\ rooms = last.before.rooms
            /\ sent = last.before.sent

\* A leave that removes a member of a room with a subscriber.
C10_Witness == LeaveRemoved /\ last.status = 204 /\ FoundBefore.streams # {}

\* C11: a join, a reset or a stream open addressed to a code the registry
\* does not hold answers 404 and leaves the registry, every room object and
\* every stream as they were: no room, member or stream is added and no
\* sendSSE call is made.
C11_NotFoundChangesNothing ==
  /\ (last.op \in {"join", "reset", "open"} /\ last.code \notin DOMAIN last.before.rooms) => last.status = 404
  /\ (last.op \in {"join", "reset", "open"} /\ last.status = 404) =>
       /\ last.code \notin DOMAIN last.before.rooms
       /\ rooms = last.before.rooms
       /\ heap = last.before.heap
       /\ sent = last.before.sent
       /\ DOMAIN conns = DOMAIN last.before.sent

\* A join addressed to "a-b" is not found while the room "AB" is registered
\* and has a subscriber.
C11_Witness == last.op = "join" /\ last.status = 404 /\ last.code = <<"a", "-", "b">> /\ <<"A", "B">> \in DOMAIN rooms /\ heap[rooms[<<"A", "B">>]].streams # {}

\* The uppercase letters and the digits.
UpperAlnum == {"A", "B", "C", "D", "E", "F", "G", "H", "I", "J", "K", "L", "M", "N", "O", "P", "Q", "R", "S", "T", "U", "V", "W", "X", "Y", "Z", "0", "1", "2", "3", "4", "5", "6", "7", "8", "9"}

\* The uppercase hexadecimal digits.
UpperHex == {"0", "1", "2", "3", "4", "5", "6", "7", "8", "9", "A", "B", "C", "D", "E", "F"}

\* The last handler registered a room.
IsCreated == last.op = "create" /\ last.status = 200

\* The create request named a code of which the normalization leaves something.
NamesCode == "roomCode" \in DOMAIN last.body /\ \E i \in 1..Len(last.body.roomCode) : last.body.roomCode[i] \in (UpperAlnum \cup Range(LowerLetters))

\* C12: every registered room is stored under its own code; the code is a
\* non-empty string of uppercase letters and digits; no room object is
\* registered under two codes; a generated code is six uppercase hex digits.
C12_CodesAreKeysUpperAlnumUnique ==
  /\ \A c \in DOMAIN rooms :
       /\ heap[rooms[c]].code = c
       /\ Len(c) > 0
       /\ \A i \in 1..Len(c) : c[i] \in UpperAlnum
  /\ \A c, d \in DOMAIN rooms : rooms[c] = rooms[d] => c = d
  /\ (IsCreated /\ ~NamesCode) => (Len(last.code) = 6 /\ \A i \in 1..6 : last.code[i] \in UpperHex)

\* A room requested as "a-b" is registered next to a room with a generated code.
C12_Witness == IsCreated /\ last.body = [roomCode |-> <<"a", "-", "b">>] /\ Cardinality(DOMAIN rooms) = 2 /\ \E c \in DOMAIN rooms : Len(c) = 6

\* The create request named a code that is taken, or of which the
\* normalization leaves nothing.
NamesTakenOrEmpty == last.op = "create" /\ "roomCode" \in DOMAIN last.body /\ last.body.roomCode # <<>> /\ (~NamesCode \/ ToUpperCase(SelectSeq(last.body.roomCode, LAMBDA ch : ch \in (UpperAlnum \cup Range(LowerLetters)))) \in DOMAIN last.before.rooms)

\* C13 as stated: a create naming a code that is taken, or empty once
\* normalized, registers a new room under a generated code, whenever the
\* generator has a code to give that is free.
C13_FallsBackWhenTakenOrEmpty == (NamesTakenOrEmpty /\ \E bytes \in RandomBytes : generateRoomCode(bytes) \notin DOMAIN last.before.rooms) => (last.status = 200 /\ last.code \notin DOMAIN last.before.rooms /\ last.code \in DOMAIN rooms /\ Len(last.code) = 6)

\* C13: a create naming a code of which the normalization leaves nothing
\* goes on with a generated six-digit code, and one naming a code of which it
\* leaves something goes on with what it leaves; the create registers a new
\* room under that code when the code is free, and answers 400 and registers
\* nothing when the code is taken.
C13_FallsBackOnlyWhenEmpty ==
  last.op = "create" =>
    /\ IF NamesCode THEN last.code = ToUpperCase(SelectSeq(last.body.roomCode, LAMBDA ch : ch \in (UpperAlnum \cup Range(LowerLetters)))) ELSE (Len(last.code) = 6 /\ \A i \in 1..6 : last.code[i] \in UpperHex)
    /\ IF last.code \in DOMAIN last.before.rooms
       THEN last.status = 400 /\ DOMAIN rooms = DOMAIN last.before.rooms
       ELSE last.status = 200 /\ DOMAIN rooms = DOMAIN last.before.rooms \cup {last.code}

\* A create naming "!" goes on with a generated code, which is taken.
C13_Witness == last.op = "create" /\ last.status = 400 /\ last.body = [roomCode |-> <<"!">>] /\ Len(last.code) = 6

\* The last handler was a create that ended in the collision error.
IsRejected == last.op = "create" /\ last.status = 400

\* C14: a create that ends in 400 "Room code already exists" leaves the
\* registry, every room object and every stream's log as they were; the room
\* under the code keeps its members, streams and times.
C14_RejectedCreateChangesNothing ==
  IsRejected =>
    /\ last.error = "Room code already exists"
    /\ last.code \in DOMAIN last.before.rooms
    /\ rooms = last.before.rooms
    /\ heap = last.before.heap
    /\ sent = last.before.sent

\* A create without a code draws the code of a room that has a member and a
\* subscriber and whose timer was reset.
C14_Witness == IsRejected /\ "roomCode" \notin DOMAIN last.body /\ Len(heap[rooms[last.code]].members) > 0 /\ heap[rooms[last.code]].streams # {} /\ heap[rooms[last.code]].startTime # heap[rooms[last.code]].createdAt

\* C15: a room just created has createdAt, startTime and previousStartTime
\* equal to one instant, no member and no stream, and the createdAt of the
\* response is the createdAt stored.
C15_CreatedAtOneInstant ==
  IsCreated =>
    /\ heap[rooms[last.code]].startTime = heap[rooms[last.code]].createdAt
    /\ heap[rooms[last.code]].previousStartTime = heap[rooms[last.code]].createdAt
    /\ heap[rooms[last.code]].members = <<>>
    /\ heap[rooms[last.code]].streams = {}
    /\ last.createdAt = heap[rooms[last.code]].createdAt

\* The last handler made a broadcast.
Broadcasts == IsFreshJoin \/ IsReset \/ LeaveRemoved \/ (IsClose /\ ClosedMemberPresent)

\* The streams that broadcast was to reach.
Audience == IF IsClose THEN ClosedStreams ELSE FoundBefore.streams

\* What the handler was to change is changed.
Applied ==
  CASE IsFreshJoin -> HasMember(FoundNow, last.member.id) /\ last.status = 200
    [] IsReset -> FoundNow.startTime = last.response.startTime /\ last.status = 200
    [] LeaveRemoved -> ~HasMember(FoundNow, last.memberId) /\ last.status = 204
    [] OTHER -> conns[last.stream].closed /\ (last.room \in DOMAIN heap => (~HasMember(heap[last.room], last.memberId) /\ last.stream \notin heap[last.room].streams))

\* C16: a stream whose write fails stays in its room's streams until its own
\* close; a broadcast makes its call on every stream of the room, the write
\* succeeding on each stream that has not failed, and the handler that made
\* the broadcast ends with its change applied.
C16_WriteFailureIsContained ==
  /\ \A s \in broken : ~conns[s].closed /\ s \in heap[conns[s].room].streams
  /\ Broadcasts =>
       /\ \A s \in Audience : GotOneMore(s) /\ (Appended(s).ok <=> s \notin broken)
       /\ Applied

\* A broadcast in a room whose first stream fails and whose second does not.
C16_Witness == Broadcasts /\ \E b \in Audience \cap broken : \E s \in Audience \ broken : b < s

\* A handler has run.
Acted == last.op # "listen"

\* C17: a code leaves the registry only in the close handler of a stream of
\* the room stored under it, and only when that room is left with no member
\* and no stream; the room of every open stream is the one registered under
\* the stream's code, and every room object in use is registered.
C17_OnlyEmptyRoomsAreDeleted ==
  /\ \A s \in Streams : ~conns[s].closed => (conns[s].code \in DOMAIN rooms /\ rooms[conns[s].code] = conns[s].room)
  /\ \A r \in DOMAIN heap : \E c \in DOMAIN rooms : rooms[c] = r
  /\ Acted => \A c \in DOMAIN last.before.rooms :
       (c \notin DOMAIN rooms \/ rooms[c] # last.before.rooms[c]) =>
         /\ IsClose
         /\ c = last.code
         /\ last.before.rooms[c] = last.room
         /\ Len(ClosedMembers) = 0
         /\ ClosedStreams = {}
         /\ c \notin DOMAIN rooms

\* The close of a member's stream empties its room, which is deleted, while
\* another room stays registered.
C17_Witness == IsClose /\ ClosedMemberPresent /\ last.code \notin DOMAIN rooms /\ DOMAIN rooms # {}

AssignedIn(id) == assigned[CHOOSE i \in 1..Len(assigned) : UUIDs[i] = id]

\* The last handler was a join carrying an id minted in the room it joins.
IsRejoin == last.op = "join" /\ last.status = 200 /\ last.memberId # Undefined /\ AssignedIn(last.memberId) = last.before.rooms[last.code]

C20_TimerChangesOnlyInReset ==
  Acted => \A r \in DOMAIN last.before.heap \cap DOMAIN heap :
    /\ heap[r].code = last.before.heap[r].code
    /\ heap[r].createdAt = last.before.heap[r].createdAt
    /\ (heap[r].startTime # last.before.heap[r].startTime \/ heap[r].previousStartTime # last.before.heap[r].previousStartTime) => (IsReset /\ r = last.before.rooms[last.code])

\* The first member joins a room at a time that is not its start time.
C20_Witness == IsFreshJoin /\ FoundBefore.members = <<>> /\ FoundNow.startTime # last.member.joinedAt /\ FoundNow.startTime = FoundNow.createdAt

\* The ids of the members room object r has now; none once it is garbage.
IdsNow(r) == IF r \in DOMAIN heap THEN MemberIds(heap[r]) ELSE {}

\* C21: a member goes out of its room only in a leave for its id addressed
\* to that room, or in the close handler of a stream opened on that room
\* with its id; such a close removes the member although another stream
\* opened with the same id is attached, and the close of a stream opened
\* with another id, or with none, removes nobody.
C21_MemberRemovedOnlyByLeaveOrOwnClose ==
  /\ Acted => \A r \in DOMAIN last.before.heap : \A id \in MemberIds(last.before.heap[r]) \ IdsNow(r) :
       \/ last.op = "leave" /\ last.memberId = id /\ last.code \in DOMAIN last.before.rooms /\ last.before.rooms[last.code] = r
       \/ IsClose /\ last.memberId = id /\ last.room = r
  /\ (IsClose /\ ClosedMemberPresent) => last.memberId \notin IdsNow(last.room)
  /\ (IsClose /\ ~ClosedMemberPresent) => IdsNow(last.room) = MemberIds(ClosedBefore)

\* One of two streams opened with the same id is closed: the member is
\* removed while the other stream stays attached.
C21_Witness == IsClose /\ ClosedMemberPresent /\ \E o \in ClosedStreams : conns[o].memberId = last.memberId /\ ~conns[o].closed

C24_NoWriteAfterClose ==
  /\ \A s \in Streams : conns[s].closed => (sent[s] = <<>> /\ \A r \in DOMAIN heap : s \notin heap[r].streams)
  /\ Acted => \A s \in DOMAIN last.before.sent : Len(sent[s]) > Len(last.before.sent[s]) => (~conns[s].closed /\ s \in heap[conns[s].room].streams)

\* A member joins a room of which one stream has closed and another is open.
C24_Witness == IsFreshJoin /\ FoundBefore.streams # {} /\ \E s \in Streams : conns[s].closed /\ conns[s].room = last.before.rooms[last.code]

\* No write on the stream has failed.
AllDelivered(s) == \A i \in 1..Len(sent[s]) : sent[s][i].ok

C26_PreviousStartIsNotAhead == \A r \in DOMAIN heap : heap[r].previousStartTime <= now

\* A countdown that is pending is reset to a start that is ahead as well.
C26_Witness == IsReset /\ FoundBefore.startTime > now /\ FoundNow.startTime > now

\* C22: in the plain-http server, a join that answers 200 with a member has
\* put that member into the room registered under the code of the request.
C22_JoinedMemberIsInRegisteredRoom == (last.op = "join" /\ last.status = 200) => (last.code \in DOMAIN rooms /\ HasMember(heap[rooms[last.code]], last.member.id))

====
